---- MODULE Spec2Model ----
(***************************************************************************)
(* Model of the visual search routine patched_find that fix_pyactr()       *)
(* installs as pyactr.vision.VisualLocation.find                           *)
(* (src/simulation/pyactrFunctionalityExtension.py).                       *)
(*                                                                         *)
(* The state is what one call reads and writes: the environment's stimulus *)
(* store, the FINST list (finst, recent), the slot registry of the chunk   *)
(* type "_visuallocation" (extended as a side effect of building chunks),  *)
(* the arguments of the latest call and what that call returned or raised. *)
(***************************************************************************)
EXTENDS Integers, Sequences, FiniteSets, TLC

\* ------------------------------------------------------------------------
\* Bounds of the model
\* ------------------------------------------------------------------------
MaxStim == 2
MaxFinst == 1

\* ------------------------------------------------------------------------
\* Python values
\* ------------------------------------------------------------------------
PyNone == "None"
PyFalse == "<False>"
PyTrue == "<True>"
StrFalse == "'False'"
\* a key that a dict does not hold
Missing == "<missing>"
\* None where a chunk, a stimulus dict or a VarvalClass is expected
NoneObj == [none |-> TRUE]

Coord == {-1, 0}
IntLits == -2..2

\* str(i) of an integer
PyStr(i) == ToString(i)

\* int(s) succeeds exactly on the decimal literals; anything else is ValueError
ParsesAsInt(s) == \E i \in IntLits : PyStr(i) = s

PyInt(s) == CHOOSE i \in IntLits : PyStr(i) = s

\* ------------------------------------------------------------------------
\* Stimuli: the dicts held in environment.stimulus
\* ------------------------------------------------------------------------
Reserved == {"position", "text", "vis_delay"}

\* stimuli that differ in what they show, and stimuli that differ in where they are
StimuliByContent == [position : {<<0, 0>>}, text : {Missing, "A"}, color : {Missing, "red"}]

StimuliByPlace == [position : Coord \X Coord, text : {Missing}, color : {Missing, "red"}]

\* the keys the stimulus dict holds
StimKeys(s) == {k \in DOMAIN s : s[k] # Missing}

\* dict.get(k): None for a key the dict lacks
DictGet(s, k) == IF k \in DOMAIN s /\ s[k] # Missing THEN s[k] ELSE PyNone

Stores(pool) == UNION {[1..n -> pool] : n \in 0..MaxStim}

\* stim_attrs in self.recent
InRecent(s, rec) == \E i \in 1..Len(rec) : rec[i] = s

\* ------------------------------------------------------------------------
\* Chunks
\* ------------------------------------------------------------------------
\* slots of the chunk type "_visuallocation" before any stimulus was seen
BaseSlots == {"screen_x", "screen_y", "value"}

\* a slot of the request chunk: a VarvalClass (values, variables) or None
Varval(val, var) == [values |-> val, variables |-> var]

\* a slot of a request chunk that holds something
IsUsed(slot) == slot # NoneObj

VarNames == {"v"}

\* Chunk.removeunused(): the slots that hold something
removeunused(chunk) == {k \in DOMAIN chunk : IsUsed(chunk[k])}

\* check_bound_vars that turns a variable without a binding into an empty slot
check_bound_vars_lenient(vars, elem, negative_impossible) ==
    IF elem.variables # PyNone
    THEN IF vars[elem.variables] = Missing
         THEN [raised |-> FALSE, values |-> PyNone]
         ELSE [raised |-> FALSE, values |-> vars[elem.variables]]
    ELSE [raised |-> FALSE, values |-> elem.values]

\* utilities.check_bound_vars(actrvariables, elem, negative_impossible):
\* a variable is replaced by its binding, a variable without a binding is an
\* ACTRError; negative_impossible only forbids negated slots
check_bound_vars(vars, elem, negative_impossible) ==
    IF elem.variables # PyNone
    THEN IF vars[elem.variables] = Missing
         THEN [raised |-> TRUE, values |-> PyNone]
         ELSE [raised |-> FALSE, values |-> vars[elem.variables]]
    ELSE [raised |-> FALSE, values |-> elem.values]

\* chunks.Chunk(typename, **dictionary): the slots of the type and of the
\* dictionary; a slot the dictionary lacks is the empty value
Chunk(types, dict) ==
    [k \in types \cup DOMAIN dict |-> IF k \in DOMAIN dict THEN dict[k] ELSE PyNone]

\* getattr(chunk.actrchunk, k + "_"), None when the slot is missing
SlotOf(chunk, k) == IF k \in DOMAIN chunk THEN chunk[k] ELSE PyNone

\* Chunk.removeempty(): slot/value pairs that are not empty
removeempty(chunk) == {<<k, chunk[k]>> : k \in {j \in DOMAIN chunk : chunk[j] # PyNone}}

\* Chunk.__eq__: equal hashes, the hash is taken over the non-empty slots
ChunkEq(a, b) ==
    IF a = NoneObj \/ b = NoneObj THEN a = b ELSE removeempty(a) = removeempty(b)

\* match that passes over a slot the other chunk's type does not have
matchSkipsMissing(self, other) ==
    \A k \in DOMAIN self :
        (self[k] # PyNone /\ k \in DOMAIN other) => other[k] = self[k]

\* Chunk.match(other, partialmatching=False): every value of self is the value
\* of the same slot of other
match(self, other) ==
    \A k \in DOMAIN self : self[k] # PyNone => SlotOf(other, k) = self[k]

\* Chunk.__le__
Le(self, other) == ChunkEq(self, other) \/ match(self, other)

\* ------------------------------------------------------------------------
\* patched_find
\* ------------------------------------------------------------------------
\* the slots a request chunk can fill
QuerySlots == {"value", "screen_x", "screen_y", "color"}

\* lines 78-82: some slot of the request raises ACTRError while it is resolved
ResolveRaises(other, vars) ==
    \E k \in removeunused(other) : check_bound_vars(vars, other[k], FALSE).raised

\* lines 79-82: the resolved slot/value pairs
mod_attr_val(other, vars) ==
    [k \in removeunused(other) |-> check_bound_vars(vars, other[k], FALSE).values]

\* line 85
chunk_used_for_search(types, other, vars) == Chunk(types, mod_attr_val(other, vars))

\* line 94: extra_tests.get("attended", None)
attended_flag(extra) == IF extra = Missing THEN PyNone ELSE extra

\* AttendedSkip that knows the boolean False only: "False" counts as truthy
AttendedSkipBoolOnly(extra, fin, rec, stim) ==
    IF attended_flag(extra) = PyFalse
    THEN fin # 0 /\ InRecent(stim, rec)
    ELSE IF attended_flag(extra) # PyNone
         THEN fin # 0 /\ ~InRecent(stim, rec)
         ELSE FALSE

\* AttendedSkip without the branch that asks for attended stimuli
AttendedSkipNoTruthy(extra, fin, rec, stim) ==
    IF attended_flag(extra) \in {PyFalse, StrFalse}
    THEN fin # 0 /\ InRecent(stim, rec)
    ELSE FALSE

\* AttendedSkip that does not ask whether the FINST list is in use
AttendedSkipNoFinst(extra, fin, rec, stim) ==
    IF attended_flag(extra) \in {PyFalse, StrFalse}
    THEN InRecent(stim, rec)
    ELSE IF attended_flag(extra) # PyNone
         THEN ~InRecent(stim, rec)
         ELSE FALSE

\* AttendedSkip that tells a key holding None from a key that is not there
AttendedSkipNoneTruthy(extra, fin, rec, stim) ==
    IF extra \in {PyFalse, StrFalse}
    THEN fin # 0 /\ InRecent(stim, rec)
    ELSE IF extra # Missing
         THEN fin # 0 /\ ~InRecent(stim, rec)
         ELSE FALSE

\* lines 95-102: the candidate is skipped because of the attended flag
AttendedSkip(extra, fin, rec, stim) ==
    IF attended_flag(extra) \in {PyFalse, StrFalse}
    THEN fin # 0 /\ InRecent(stim, rec)
    ELSE IF attended_flag(extra) # PyNone
         THEN fin # 0 /\ ~InRecent(stim, rec)
         ELSE FALSE

\* TextSkip that lets a stimulus without text pass any requested value
TextSkipNoText(cufs, stim) ==
    /\ cufs["value"] # PyNone
    /\ DictGet(stim, "text") # PyNone
    /\ cufs["value"] # DictGet(stim, "text")

\* lines 105-109: the candidate is skipped because of its text
TextSkip(cufs, stim) ==
    /\ cufs["value"] # PyNone
    /\ cufs["value"] # DictGet(stim, "text")

\* CoordSkip that takes the number, not the string, for the truth test: a
\* request for coordinate 0 constrains nothing
CoordSkipZeroFalsy(cufs, slot, pos) ==
    /\ cufs[slot] # PyNone
    /\ ParsesAsInt(cufs[slot])
    /\ PyInt(cufs[slot]) # 0
    /\ PyInt(cufs[slot]) # pos

\* CoordSkip that takes a slot it cannot parse for a mismatch
CoordSkipStrict(cufs, slot, pos) ==
    /\ cufs[slot] # PyNone
    /\ (~ParsesAsInt(cufs[slot]) \/ PyInt(cufs[slot]) # pos)

\* lines 115-130: the candidate is skipped because of one coordinate; an empty
\* slot (AttributeError) or an unparsable one (ValueError) skips nothing
CoordSkip(cufs, slot, pos) ==
    /\ cufs[slot] # PyNone
    /\ ParsesAsInt(cufs[slot])
    /\ PyInt(cufs[slot]) # pos

\* lines 134-138
filtered(stim) == [k \in StimKeys(stim) \ Reserved |-> stim[k]]

\* lines 139-143: makechunk builds the chunk with the slots the type has once
\* it is extended by the new attributes
visible_chunk(types, stim) == Chunk(types \cup DOMAIN filtered(stim), filtered(stim))

\* LocationChunk that also carries the stimulus' text, as a chunk of the
\* visual buffer does
LocationChunkWithText(types, vis, stim) ==
    Chunk(types, [k \in DOMAIN vis \cup {"screen_x", "screen_y"}
                        \cup (StimKeys(stim) \cap {"text"}) |->
                    IF k = "screen_x" THEN PyStr(stim.position[1])
                    ELSE IF k = "screen_y" THEN PyStr(stim.position[2])
                    ELSE IF k = "text" THEN stim[k]
                    ELSE vis[k]])

\* lines 147-149
LocationChunk(types, vis, stim) ==
    Chunk(types, [k \in DOMAIN vis \cup {"screen_x", "screen_y"} |->
                    IF k = "screen_x" THEN PyStr(stim.position[1])
                    ELSE IF k = "screen_y" THEN PyStr(stim.position[2])
                    ELSE vis[k]])

\* lines 146-150: the test that ends the scan
Compatible(vis, cufs) == Le(vis, cufs)

\* Scan without the break of line 150: a later match replaces an earlier one
RECURSIVE ScanNoBreak(_, _, _, _, _, _, _)
ScanNoBreak(i, store, cufs, extra, fin, rec, acc) ==
    IF i > Len(store) THEN acc
    ELSE LET stim == store[i]
             seen == [acc EXCEPT !.examined = i]
         IN IF \/ AttendedSkip(extra, fin, rec, stim)
               \/ TextSkip(cufs, stim)
               \/ CoordSkip(cufs, "screen_x", stim.position[1])
               \/ CoordSkip(cufs, "screen_y", stim.position[2])
            THEN ScanNoBreak(i + 1, store, cufs, extra, fin, rec, seen)
            ELSE LET vis == visible_chunk(acc.types, stim)
                     kept == [seen EXCEPT !.found_stim = stim, !.types = DOMAIN vis]
                 IN IF Le(vis, cufs)
                    THEN ScanNoBreak(i + 1, store, cufs, extra, fin, rec,
                             [kept EXCEPT !.found = LocationChunk(DOMAIN vis, vis, stim),
                                          !.from = i])
                    ELSE ScanNoBreak(i + 1, store, cufs, extra, fin, rec, kept)

\* Scan that keeps the first stimulus that passed the filters as found_stim
RECURSIVE ScanKeepsFirstStim(_, _, _, _, _, _, _)
ScanKeepsFirstStim(i, store, cufs, extra, fin, rec, acc) ==
    IF i > Len(store) THEN acc
    ELSE LET stim == store[i]
             seen == [acc EXCEPT !.examined = i]
         IN IF \/ AttendedSkip(extra, fin, rec, stim)
               \/ TextSkip(cufs, stim)
               \/ CoordSkip(cufs, "screen_x", stim.position[1])
               \/ CoordSkip(cufs, "screen_y", stim.position[2])
            THEN ScanKeepsFirstStim(i + 1, store, cufs, extra, fin, rec, seen)
            ELSE LET vis == visible_chunk(acc.types, stim)
                     kept == [seen EXCEPT
                                 !.found_stim = IF @ = NoneObj THEN stim ELSE @,
                                 !.types = DOMAIN vis]
                 IN IF Le(vis, cufs)
                    THEN [kept EXCEPT !.found = LocationChunk(DOMAIN vis, vis, stim),
                                      !.from = i]
                    ELSE ScanKeepsFirstStim(i + 1, store, cufs, extra, fin, rec, kept)

\* lines 90-150: the loop from the i-th stimulus on. acc holds found,
\* found_stim, the slots of the chunk type, the number of stimuli looked at
\* and the index of the stimulus found was built from (0: none)
RECURSIVE Scan(_, _, _, _, _, _, _)
Scan(i, store, cufs, extra, fin, rec, acc) ==
    IF i > Len(store) THEN acc
    ELSE LET stim == store[i]
             seen == [acc EXCEPT !.examined = i]
         IN IF \/ AttendedSkip(extra, fin, rec, stim)
               \/ TextSkip(cufs, stim)
               \/ CoordSkip(cufs, "screen_x", stim.position[1])
               \/ CoordSkip(cufs, "screen_y", stim.position[2])
            THEN Scan(i + 1, store, cufs, extra, fin, rec, seen)
            ELSE LET vis == visible_chunk(acc.types, stim)
                     kept == [seen EXCEPT !.found_stim = stim, !.types = DOMAIN vis]
                 IN IF Compatible(vis, cufs)
                    THEN [kept EXCEPT !.found = LocationChunk(DOMAIN vis, vis, stim),
                                      !.from = i]
                    ELSE Scan(i + 1, store, cufs, extra, fin, rec, kept)

\* patched_find that swallows the ACTRError and answers "no match"
patched_find_swallow(store, fin, rec, types, other, vars, extra) ==
    IF ResolveRaises(other, vars)
    THEN [raised |-> FALSE, found |-> NoneObj, found_stim |-> NoneObj,
          types |-> types, examined |-> 0, from |-> 0]
    ELSE LET cufs == chunk_used_for_search(types, other, vars)
         IN Scan(1, store, cufs, extra, fin, rec,
                 [raised |-> FALSE, found |-> NoneObj, found_stim |-> NoneObj,
                  types |-> DOMAIN cufs, examined |-> 0, from |-> 0])

\* lines 49-152: what one call does. raised: the ACTRError of line 84
patched_find(store, fin, rec, types, other, vars, extra) ==
    IF ResolveRaises(other, vars)
    THEN [raised |-> TRUE, found |-> NoneObj, found_stim |-> NoneObj,
          types |-> types, examined |-> 0, from |-> 0]
    ELSE LET cufs == chunk_used_for_search(types, other, vars)
         IN Scan(1, store, cufs, extra, fin, rec,
                 [raised |-> FALSE, found |-> NoneObj, found_stim |-> NoneObj,
                  types |-> DOMAIN cufs, examined |-> 0, from |-> 0])

\* ------------------------------------------------------------------------
\* State
\* ------------------------------------------------------------------------
VARIABLES
    stimulus,       \* environment.stimulus, in insertion order
    finst,          \* self.finst: size of the FINST list, 0 switches it off
    recent,         \* self.recent: the stimuli attended last
    chunktypes,     \* slots of the chunk type "_visuallocation"
    otherchunk,     \* arguments of the latest call of find
    actrvariables,
    extra_tests,
    outcome,        \* "idle", "returned" or "raised"
    found,          \* the pair the latest call returned
    found_stim,
    examined,       \* how many stimuli the latest call looked at
    from,           \* index of the stimulus found was built from
    calls,          \* how often find ran with these arguments
    prev,           \* what the call before returned, for a repeated call
    package,        \* AgentTypeReturner: what the modules of base_package hold
    cache,          \* AgentTypeReturner._cache
    resolution      \* the latest call of _resolve_agent_classes and its result

factoryVars == <<package, cache, resolution>>

vars == <<stimulus, finst, recent, chunktypes, otherchunk, actrvariables,
          extra_tests, outcome, found, found_stim, examined, from, calls, prev,
          package, cache, resolution>>

NoCall == [nocall |-> TRUE]
NoArg == "<nocall>"

\* the request chunks, binding maps and extra tests a caller passes
Request(val, x, y, col) == [value |-> val, screen_x |-> x, screen_y |-> y, color |-> col]

Val(str) == Varval(str, PyNone)

Var(name) == Varval(PyNone, name)

QueriesByContent ==
    {Request(val, NoneObj, NoneObj, col) :
        val \in {NoneObj, Val("A"), Val("B")}, col \in {NoneObj, Val("red"), Val("blue")}}

QueriesByPlace ==
    {Request(NoneObj, x, y, col) :
        x \in {NoneObj, Val("0"), Val("junk"), Var("v")},
        y \in {NoneObj, Val("-1"), Val("junk")},
        col \in {NoneObj, Val("red")}}

Bindings == [VarNames -> {Missing, "-1"}]

NoBindings == [n \in VarNames |-> Missing]

ExtraTests == {Missing, PyNone, PyFalse, StrFalse, PyTrue}

\* ------------------------------------------------------------------------
\* AgentTypeReturner (src/simulation/AgentTypeReturner.py)
\* ------------------------------------------------------------------------
\* the logical agent types asked for
TypeNames == {"Example", "Other"}

\* what a module of the package can be: not importable, holding the class of
\* the expected name, holding only classes of other names defined in it, or
\* importable without the expected name and without a class of its own
ModuleKinds == {"absent", "named", "other", "noclass"}

Packages == [TypeNames -> [runner : ModuleKinds, adapter : ModuleKinds]]

\* lines 110-118: getattr(module, expected, None), else _first_local_class
ClassIn(kind, expected) ==
    IF kind = "named" THEN expected
    ELSE IF kind = "other" THEN "<first local class>"
    ELSE PyNone

\* _resolve_agent_classes that stores the pair before it tests it
resolve_agent_classes_cache_first(cch, pkg, name) ==
    IF cch[name] # NoneObj
    THEN [raised |-> FALSE, error |-> PyNone, classes |-> cch[name], cache |-> cch]
    ELSE IF pkg[name].runner = "absent"
    THEN [raised |-> TRUE, error |-> "runner module", classes |-> NoneObj, cache |-> cch]
    ELSE IF pkg[name].adapter = "absent"
    THEN [raised |-> TRUE, error |-> "adapter module", classes |-> NoneObj, cache |-> cch]
    ELSE LET runner_cls == ClassIn(pkg[name].runner, name)
             adapter_cls == ClassIn(pkg[name].adapter, name \o "Adapter")
             pair == [runner |-> runner_cls, adapter |-> adapter_cls]
         IN IF runner_cls = PyNone \/ adapter_cls = PyNone
            THEN [raised |-> TRUE, error |-> "classes", classes |-> NoneObj,
                  cache |-> [cch EXCEPT ![name] = pair]]
            ELSE [raised |-> FALSE, error |-> PyNone, classes |-> pair,
                  cache |-> [cch EXCEPT ![name] = pair]]

\* lines 66-128: _resolve_agent_classes(name). raised: the ValueError
resolve_agent_classes(cch, pkg, name) ==
    IF cch[name] # NoneObj
    THEN [raised |-> FALSE, error |-> PyNone, classes |-> cch[name], cache |-> cch]
    ELSE IF pkg[name].runner = "absent"
    THEN [raised |-> TRUE, error |-> "runner module", classes |-> NoneObj, cache |-> cch]
    ELSE IF pkg[name].adapter = "absent"
    THEN [raised |-> TRUE, error |-> "adapter module", classes |-> NoneObj, cache |-> cch]
    ELSE LET runner_cls == ClassIn(pkg[name].runner, name)
             adapter_cls == ClassIn(pkg[name].adapter, name \o "Adapter")
             pair == [runner |-> runner_cls, adapter |-> adapter_cls]
         IN IF runner_cls = PyNone \/ adapter_cls = PyNone
            THEN [raised |-> TRUE, error |-> "classes", classes |-> NoneObj, cache |-> cch]
            ELSE [raised |-> FALSE, error |-> PyNone, classes |-> pair,
                  cache |-> [cch EXCEPT ![name] = pair]]

\* line 36: the factory as constructed, over a package without agent modules
FactoryFresh ==
    /\ package = [n \in TypeNames |-> [runner |-> "absent", adapter |-> "absent"]]
    /\ cache = [n \in TypeNames |-> NoneObj]
    /\ resolution = NoCall

Idle ==
    /\ recent = <<>>
    /\ chunktypes = BaseSlots
    /\ otherchunk = NoCall
    /\ actrvariables = NoCall
    /\ extra_tests = NoArg
    /\ outcome = "idle"
    /\ found = NoneObj
    /\ found_stim = NoneObj
    /\ examined = 0
    /\ from = 0
    /\ calls = 0
    /\ prev = NoCall

InitAttention ==
    /\ stimulus \in Stores(StimuliByContent)
    /\ finst \in 0..MaxFinst
    /\ Idle
    /\ FactoryFresh

InitQuery ==
    /\ stimulus \in Stores(StimuliByPlace)
    /\ finst = 0
    /\ Idle
    /\ FactoryFresh

\* the result of a call becomes the state
Returned(r) ==
    /\ outcome' = IF r.raised THEN "raised" ELSE "returned"
    /\ found' = r.found
    /\ found_stim' = r.found_stim
    /\ examined' = r.examined
    /\ from' = r.from
    /\ chunktypes' = r.types

\* Find that enters the stimulus it found into the FINST list itself
FindAppendsRecent(q, b, e) ==
    /\ otherchunk' = q
    /\ actrvariables' = b
    /\ extra_tests' = e
    /\ Returned(patched_find(stimulus, finst, recent, chunktypes, q, b, e))
    /\ calls' = 1
    /\ prev' = NoCall
    /\ recent' = IF found' # NoneObj THEN Append(recent, found_stim') ELSE recent
    /\ UNCHANGED <<stimulus, finst>>
    /\ UNCHANGED factoryVars

\* a production requests a visual location: find(otherchunk, actrvariables, extra_tests)
Find(q, b, e) ==
    /\ otherchunk' = q
    /\ actrvariables' = b
    /\ extra_tests' = e
    /\ Returned(patched_find(stimulus, finst, recent, chunktypes, q, b, e))
    /\ calls' = 1
    /\ prev' = NoCall
    /\ UNCHANGED <<stimulus, finst, recent>>
    /\ UNCHANGED factoryVars

\* the same request once more, nothing else having happened in between
FindAgain ==
    /\ calls = 1
    /\ Returned(patched_find(stimulus, finst, recent, chunktypes,
                             otherchunk, actrvariables, extra_tests))
    /\ calls' = 2
    /\ prev' = [outcome |-> outcome, found |-> found, found_stim |-> found_stim]
    /\ UNCHANGED <<stimulus, finst, recent, otherchunk, actrvariables, extra_tests>>
    /\ UNCHANGED factoryVars

\* the visual module attends the i-th stimulus: it enters the FINST list and
\* the oldest entry leaves once the list is longer than finst; the result of
\* the search before is used up
Attend(i) ==
    /\ i \in 1..Len(stimulus)
    /\ recent' = IF Len(recent) + 1 > finst
                 THEN Tail(Append(recent, stimulus[i]))
                 ELSE Append(recent, stimulus[i])
    /\ otherchunk' = NoCall
    /\ actrvariables' = NoCall
    /\ extra_tests' = NoArg
    /\ outcome' = "idle"
    /\ found' = NoneObj
    /\ found_stim' = NoneObj
    /\ examined' = 0
    /\ from' = 0
    /\ calls' = 0
    /\ prev' = NoCall
    /\ UNCHANGED <<stimulus, finst, chunktypes>>
    /\ UNCHANGED factoryVars

FindByContent == \E q \in QueriesByContent, e \in ExtraTests : Find(q, NoBindings, e)

FindByPlace == \E q \in QueriesByPlace, b \in Bindings : Find(q, b, Missing)

AttendStep == \E i \in 1..MaxStim : Attend(i)

NextAttention == FindByContent \/ FindAgain \/ AttendStep

NextQuery == FindByPlace \/ FindAgain

\* searches that differ in content and attention, over stimuli at one place
SpecAttention == InitAttention /\ [][NextAttention]_vars

\* searches that differ in coordinates and variables, over stimuli at several places
SpecQuery == InitQuery /\ [][NextQuery]_vars

\* a factory over any package, no search going on
InitFactory ==
    /\ package \in Packages
    /\ cache = [n \in TypeNames |-> NoneObj]
    /\ resolution = NoCall
    /\ stimulus = <<>>
    /\ finst = 0
    /\ Idle

\* return_agent_type resolves the classes of a type: _resolve_agent_classes(name)
Resolve(name) ==
    /\ LET r == resolve_agent_classes(cache, package, name)
       IN /\ cache' = r.cache
          /\ resolution' = [name |-> name, raised |-> r.raised, error |-> r.error,
                            classes |-> r.classes, hit |-> cache[name] # NoneObj]
    /\ UNCHANGED package
    /\ UNCHANGED <<stimulus, finst, recent, chunktypes, otherchunk, actrvariables,
                   extra_tests, outcome, found, found_stim, examined, from, calls, prev>>

NextFactory == \E name \in TypeNames : Resolve(name)

SpecFactory == InitFactory /\ [][NextFactory]_vars

\* ------------------------------------------------------------------------
\* The latest call, as the properties below speak of it
\* ------------------------------------------------------------------------
Called == outcome # "idle"

\* the request as resolved by the latest call
Cufs == chunk_used_for_search(chunktypes, otherchunk, actrvariables)

\* the i-th stimulus passes the attention, text and coordinate filters
PassesFilters(i) ==
    /\ ~AttendedSkip(extra_tests, finst, recent, stimulus[i])
    /\ ~TextSkip(Cufs, stimulus[i])
    /\ ~CoordSkip(Cufs, "screen_x", stimulus[i].position[1])
    /\ ~CoordSkip(Cufs, "screen_y", stimulus[i].position[2])

\* the i-th stimulus passes the filters and the compatibility test
Qualifies(i) ==
    /\ PassesFilters(i)
    /\ Compatible(visible_chunk(chunktypes, stimulus[i]), Cufs)

\* C1: when no stimulus passes all filters and the compatibility test, find
\* returns (None, None): both the location chunk and the raw stimulus are None.
C1_NoMatchReturnsNonePair ==
    (outcome = "returned" /\ \A i \in 1..Len(stimulus) : ~Qualifies(i))
        => (found = NoneObj /\ found_stim = NoneObj)

\* C2: first match wins. When the call returns, no stimulus that qualifies
\* comes before the one the result is built from, the pair is built from that
\* stimulus, and the scan has looked at no stimulus after it.
C2_FirstMatchWins ==
    outcome = "returned" =>
        \A i \in 1..Len(stimulus) :
            Qualifies(i) =>
                /\ from # 0
                /\ from <= i
                /\ examined = from
                /\ found_stim = stimulus[from]
                /\ found # NoneObj
                /\ found["screen_x"] = PyStr(stimulus[from].position[1])
                /\ found["screen_y"] = PyStr(stimulus[from].position[2])

\* two different stimuli qualify and the earlier one was returned
C2_Witness ==
    /\ outcome = "returned"
    /\ Len(stimulus) = 2
    /\ stimulus[1] # stimulus[2]
    /\ Qualifies(1)
    /\ Qualifies(2)
    /\ from = 1

\* C3: with attended False (or "False") and the FINST list in use, neither
\* element of the result is taken from a stimulus that is in the list.
C3_UnattendedOnly ==
    (outcome = "returned" /\ extra_tests \in {PyFalse, StrFalse} /\ finst # 0) =>
        /\ found_stim # NoneObj => ~InRecent(found_stim, recent)
        /\ from # 0 => ~InRecent(stimulus[from], recent)

\* an attended stimulus comes first and the search returned the one after it
C3_Witness ==
    /\ outcome = "returned"
    /\ extra_tests \in {PyFalse, StrFalse}
    /\ finst # 0
    /\ Len(stimulus) = 2
    /\ InRecent(stimulus[1], recent)
    /\ from = 2

\* C4: with a truthy attended and the FINST list in use, every stimulus the
\* result is taken from is in the list.
C4_AttendedOnly ==
    (outcome = "returned" /\ extra_tests = PyTrue /\ finst # 0) =>
        /\ found_stim # NoneObj => InRecent(found_stim, recent)
        /\ from # 0 => InRecent(stimulus[from], recent)

\* a stimulus never attended comes first and the search returned the attended one
C4_Witness ==
    /\ outcome = "returned"
    /\ extra_tests = PyTrue
    /\ finst # 0
    /\ Len(stimulus) = 2
    /\ ~InRecent(stimulus[1], recent)
    /\ from = 2

\* a slot of the latest request, resolved: the string it holds or None
ResolvedSlot(k) == SlotOf(mod_attr_val(otherchunk, actrvariables), k)

\* the slot is resolved to an integer literal
IsIntSlot(k) == ResolvedSlot(k) # PyNone /\ ParsesAsInt(ResolvedSlot(k))

\* C5: when the request's screen_x (screen_y) resolves to an integer, zero and
\* negative ones included, a location chunk that is returned holds that integer
\* as its screen_x (screen_y), and so does the position of the stimulus it was
\* built from.
C5_CoordinatesExact ==
    (outcome = "returned" /\ found # NoneObj) =>
        /\ IsIntSlot("screen_x") =>
              /\ ParsesAsInt(found["screen_x"])
              /\ PyInt(found["screen_x"]) = PyInt(ResolvedSlot("screen_x"))
              /\ stimulus[from].position[1] = PyInt(ResolvedSlot("screen_x"))
        /\ IsIntSlot("screen_y") =>
              /\ ParsesAsInt(found["screen_y"])
              /\ PyInt(found["screen_y"]) = PyInt(ResolvedSlot("screen_y"))
              /\ stimulus[from].position[2] = PyInt(ResolvedSlot("screen_y"))

\* a request for x = 0 and y = -1 returns the second stimulus, the first one
\* being somewhere else
C5_Witness ==
    /\ outcome = "returned"
    /\ found # NoneObj
    /\ ResolvedSlot("screen_x") = "0"
    /\ ResolvedSlot("screen_y") = "-1"
    /\ from = 2
    /\ stimulus[1].position # stimulus[2].position

\* C6: the same request once more, store and FINST list unchanged, returns
\* what the call before returned (chunks compared as Chunk.__eq__ does), or
\* fails as the call before failed.
C6_Deterministic ==
    calls = 2 =>
        /\ prev.outcome = outcome
        /\ ChunkEq(prev.found, found)
        /\ prev.found_stim = found_stim

\* a repeated call that returned a stimulus with an attribute of its own, the
\* first call having added that slot to the chunk type
C6_Witness ==
    /\ calls = 2
    /\ found # NoneObj
    /\ SlotOf(found, "color") = "red"
    /\ from = 2

\* C7: a request without any slot, no attended flag and a store that is not
\* empty: find returns the first stimulus.
C7_EmptyRequestMatchesFirst ==
    (/\ outcome = "returned"
     /\ removeunused(otherchunk) = {}
     /\ extra_tests = Missing
     /\ Len(stimulus) > 0) =>
        (from = 1 /\ found # NoneObj /\ found_stim = stimulus[1])

\* C8: with the FINST list switched off, the result is the one the call returns
\* for any other attended flag, or for none.
C8_AttentionAgnostic ==
    (outcome = "returned" /\ finst = 0) =>
        \A e \in ExtraTests :
            LET r == patched_find(stimulus, finst, recent, chunktypes,
                                  otherchunk, actrvariables, e)
            IN /\ ~r.raised
               /\ ChunkEq(r.found, found)
               /\ r.found_stim = found_stim

\* the FINST list is off and a call with a truthy attended returned a stimulus
C8_Witness ==
    /\ outcome = "returned"
    /\ finst = 0
    /\ extra_tests = PyTrue
    /\ from = 2

\* a used slot of the request names a variable the binding map does not hold
HasUnboundVariable ==
    \E k \in DOMAIN otherchunk :
        /\ IsUsed(otherchunk[k])
        /\ otherchunk[k].variables # PyNone
        /\ actrvariables[otherchunk[k].variables] = Missing

\* C9: a request that cannot be resolved makes find fail with the ACTRError
\* before a stimulus is looked at: nothing is returned, no chunk is built, and
\* the step leaves the store and the FINST list as they were.
C9_MalformedRequestFails ==
    /\ [](Called /\ HasUnboundVariable =>
            /\ outcome = "raised"
            /\ found = NoneObj
            /\ found_stim = NoneObj
            /\ examined = 0)
    /\ [][(Called' /\ HasUnboundVariable') =>
            UNCHANGED <<stimulus, finst, recent, chunktypes>>]_vars

\* a call with an unbound variable over a store that holds a stimulus
C9_Witness ==
    /\ outcome = "raised"
    /\ HasUnboundVariable
    /\ Len(stimulus) > 0

\* C10: find never fails because of a variable without a binding.
C10_NeverFailsOnUnbound == Called => outcome # "raised"

\* the request with the bindings written into its slots
Substituted ==
    [k \in DOMAIN otherchunk |->
        IF IsUsed(otherchunk[k]) /\ otherchunk[k].variables # PyNone
        THEN Val(actrvariables[otherchunk[k].variables])
        ELSE otherchunk[k]]

\* C10 as amended: find fails exactly when a used slot names a variable the
\* binding map does not hold; with every variable bound it returns what it
\* returns for the request with the bound values written into the slots.
C10_VariablesNeedBindings ==
    Called =>
        /\ outcome = "raised" <=> HasUnboundVariable
        /\ outcome = "returned" =>
              LET r == patched_find(stimulus, finst, recent, chunktypes,
                                    Substituted, NoBindings, extra_tests)
              IN /\ ~r.raised
                 /\ ChunkEq(r.found, found)
                 /\ r.found_stim = found_stim

\* a request whose screen_x is a bound variable returned the second stimulus
C10_Witness ==
    /\ outcome = "returned"
    /\ IsUsed(otherchunk["screen_x"])
    /\ otherchunk["screen_x"].variables = "v"
    /\ actrvariables["v"] = "-1"
    /\ from = 2

\* C11: a location chunk that is returned holds exactly the attributes of the
\* stimulus it was built from that are not position, text or vis_delay, plus
\* screen_x and screen_y, the x and y of that stimulus' position; position, text
\* and vis_delay are no slots of it.
C11_LocationChunkContent ==
    (outcome = "returned" /\ found # NoneObj) =>
        /\ from # 0
        /\ removeempty(found) =
              {<<k, stimulus[from][k]>> : k \in StimKeys(stimulus[from]) \ Reserved}
                  \cup {<<"screen_x", PyStr(stimulus[from].position[1])>>,
                        <<"screen_y", PyStr(stimulus[from].position[2])>>}
        /\ PyInt(found["screen_x"]) = stimulus[from].position[1]
        /\ PyInt(found["screen_y"]) = stimulus[from].position[2]
        /\ DOMAIN found \cap Reserved = {}

\* the chunk returned was built from a stimulus that has a text and a color
C11_Witness ==
    /\ outcome = "returned"
    /\ found # NoneObj
    /\ from = 2
    /\ stimulus[from].text = "A"
    /\ stimulus[from].color = "red"

\* C12: a call of find, whether it returns a match, returns none or fails,
\* leaves the store, every stimulus in it and the FINST list as they were, and
\* the request and the binding map are the ones the caller passed; a repeated
\* call finds them unchanged.
C12_ReadOnly ==
    [][outcome' # "idle" =>
          /\ UNCHANGED <<stimulus, finst, recent>>
          /\ calls' = 2 => UNCHANGED <<otherchunk, actrvariables, extra_tests>>]_vars

\* a call returned a stimulus that is not in the FINST list after the call,
\* the list being in use
C12_Witness ==
    /\ outcome = "returned"
    /\ from # 0
    /\ finst # 0
    /\ ~InRecent(found_stim, recent)

\* C14: with a value requested, every stimulus the result is taken from has
\* that value as its text, and a stimulus with another text or without one is
\* passed over without an error; with no value requested (and no attended flag
\* or coordinate in the request) no stimulus is passed over: the stimulus
\* looked at last is the raw stimulus returned.
C14_TextFilter ==
    /\ (Called /\ ~HasUnboundVariable) => outcome = "returned"
    /\ (outcome = "returned" /\ ResolvedSlot("value") # PyNone) =>
          /\ found_stim # NoneObj => DictGet(found_stim, "text") = ResolvedSlot("value")
          /\ from # 0 => DictGet(stimulus[from], "text") = ResolvedSlot("value")
    /\ (/\ outcome = "returned"
        /\ ResolvedSlot("value") = PyNone
        /\ extra_tests = Missing
        /\ ResolvedSlot("screen_x") = PyNone
        /\ ResolvedSlot("screen_y") = PyNone
        /\ Len(stimulus) > 0) =>
          (examined > 0 /\ found_stim = stimulus[examined])

\* value "A" requested: the first stimulus has no text and the second, with
\* text "A", is returned
C14_Witness ==
    /\ outcome = "returned"
    /\ ResolvedSlot("value") = "A"
    /\ Len(stimulus) = 2
    /\ DictGet(stimulus[1], "text") = PyNone
    /\ from = 2

\* the latest request with one slot emptied
Without(slot) == [otherchunk EXCEPT ![slot] = NoneObj]

\* C15: a screen_x (screen_y) that is empty or does not parse as an integer
\* constrains nothing and makes no call fail: the call returns what it returns
\* for the request without that slot, so the other axis constrains as before.
C15_LenientCoordinates ==
    /\ (Called /\ ~HasUnboundVariable) => outcome = "returned"
    /\ outcome = "returned" =>
          \A axis \in {"screen_x", "screen_y"} :
              ~IsIntSlot(axis) =>
                  LET r == patched_find(stimulus, finst, recent, chunktypes,
                                        Without(axis), actrvariables, extra_tests)
                  IN /\ ~r.raised
                     /\ ChunkEq(r.found, found)
                     /\ r.found_stim = found_stim
                     /\ r.examined = examined

\* screen_x does not parse and screen_y is -1: the first stimulus is at
\* another y and the second one is returned
C15_Witness ==
    /\ outcome = "returned"
    /\ ResolvedSlot("screen_x") = "junk"
    /\ ResolvedSlot("screen_y") = "-1"
    /\ Len(stimulus) = 2
    /\ stimulus[1].position[2] # -1
    /\ from = 2

C17_PairConsistent ==
    (outcome = "returned" /\ found # NoneObj) =>
        /\ found_stim # NoneObj
        /\ from # 0
        /\ found_stim = stimulus[from]
        /\ PyInt(found["screen_x"]) = found_stim.position[1]
        /\ PyInt(found["screen_y"]) = found_stim.position[2]
        /\ \A k \in StimKeys(found_stim) \ Reserved : found[k] = found_stim[k]

\* the first stimulus passed the filters and failed the compatibility test,
\* the second, another one, was returned
C17_Witness ==
    /\ outcome = "returned"
    /\ found # NoneObj
    /\ from = 2
    /\ PassesFilters(1)
    /\ ~Qualifies(1)
    /\ stimulus[1].position # stimulus[2].position

\* the latest resolution was one of a type name
Resolved == resolution # NoCall

\* the module of the latest resolution's runner, of its adapter
RunnerModule == package[resolution.name].runner

AdapterModule == package[resolution.name].adapter

====
